---- MODULE Spec2Model ----
(***************************************************************************)
(* Model of the Connect4 front end hook useConnect4 (hooks/use-connect4),  *)
(* of the click handlers of GameBoard that call it, and of the pure        *)
(* functions createEmptyBoard, convertBoard and findWinningCells.          *)
(*                                                                         *)
(* A handler of the hook runs to its next await as one step: the state     *)
(* setters it calls are applied together, and a click handler sees the     *)
(* state of the last render.  The backend is outside the repository: the   *)
(* answer to a request is any element of a bounded set of responses, or a  *)
(* failure.  Requests are answered in any order.                           *)
(***************************************************************************)
EXTENDS Integers, Sequences, FiniteSets, Bags, TLC

VARIABLES
    board,          \* useState<Board>
    currentTurn,    \* useState<"player" | "ai">
    status,         \* useState<GameStatus>
    winningCells,   \* useState<[number, number][]>
    isThinking,     \* useState(false)
    errorMessage,   \* useState<string | null>
    aiFirst,        \* useState(false)
    sessionRef,     \* useRef: session_id, human_player, ai_player
    inflight,       \* bag of fetch requests that have not been answered yet
    mounted,        \* TRUE once the mount effect has run
    lastOp,         \* the handler that ran last, with its input (observation only)
    fwBoard,        \* argument board of the last findWinningCells evaluation
    fwWinner,       \* argument winner of the last findWinningCells evaluation
    fwResult,       \* its result
    fwStage,        \* progress of the construction of fwBoard
    cvBoard,        \* argument apiBoard of the last convertBoard evaluation
    cvHuman,        \* argument humanPlayer of the last convertBoard evaluation
    cvResult,       \* its result
    cvStage         \* progress of the construction of cvBoard

hookVars == <<board, currentTurn, status, winningCells, isThinking,
              errorMessage, aiFirst, sessionRef>>
stateVars == <<board, currentTurn, status, winningCells, isThinking,
               errorMessage, aiFirst>>
fwVars == <<fwBoard, fwWinner, fwResult, fwStage>>
cvVars == <<cvBoard, cvHuman, cvResult, cvStage>>
vars == <<board, currentTurn, status, winningCells, isThinking, errorMessage,
          aiFirst, sessionRef, inflight, mounted, lastOp,
          fwBoard, fwWinner, fwResult, fwStage,
          cvBoard, cvHuman, cvResult, cvStage>>

----------------------------------------------------------------------------
(* Constants of the program *)

ROWS == 6
COLS == 7

\* the value null of a Cell, of the session id and of the error message
null == "null"
\* the value null of the field winner (number | null) of a response
NullWinner == -1

\* bound: requests that may be waiting for their answer at once
MaxInFlight == 2
\* bound: the user clicks the columns 0 .. MaxClickCol
MaxClickCol == 1
\* bound: the cells of a convertBoard input and its humanPlayer are 0 .. MaxCell
MaxCell == 3
\* bound: longest run of equal cells painted on a findWinningCells input
MaxSegLen == 4

Rows == 0 .. (ROWS - 1)
Cols == 0 .. (COLS - 1)
ClickCols == {col \in Cols : col <= MaxClickCol}
Players == {1, 2}
Terminal == {"won", "lost", "draw"}
GameStatus == {"playing", "won", "lost", "draw", "connecting", "error"}

----------------------------------------------------------------------------
(* Pure functions *)

\* slip: ROWS and COLS have changed places
createEmptyBoardTransposed == [row \in Cols |-> [col \in Rows |-> null]]

createEmptyBoard == [row \in Rows |-> [col \in Cols |-> null]]

\* slip: the cell is compared with humanPlayer before it is compared with 0
convertCellHumanFirst(cell, humanPlayer) ==
    IF cell = humanPlayer THEN "player"
    ELSE IF cell = 0 THEN null
    ELSE "ai"

convertCell(cell, humanPlayer) ==
    IF cell = 0 THEN null
    ELSE IF cell = humanPlayer THEN "player"
    ELSE "ai"

convertBoard(apiBoard, humanPlayer) ==
    [row \in DOMAIN apiBoard |->
        [col \in DOMAIN apiBoard[row] |-> convertCell(apiBoard[row][col], humanPlayer)]]

\* the four cells tested from (row, col) in direction (dr, dc), in the order returned
Line(row, col, dr, dc) ==
    << <<row, col>>, <<row + dr, col + dc>>,
       <<row + 2 * dr, col + 2 * dc>>, <<row + 3 * dr, col + 3 * dc>> >>

\* board[row][col] === winner && ... && board[row + 3 * dr][col + 3 * dc] === winner
AllWinner(b, winner, row, col, dr, dc) ==
    /\ b[row][col] = winner
    /\ b[row + dr][col + dc] = winner
    /\ b[row + 2 * dr][col + 2 * dc] = winner
    /\ b[row + 3 * dr][col + 3 * dc] = winner

\* the pairs (row, col) visited by
\*   for (row = rowFrom; row < rowEnd; row++) for (col = 0; col < colEnd; col++)
\* in the order of the visit
LoopOrder(rowFrom, rowEnd, colEnd) ==
    [i \in 1 .. ((rowEnd - rowFrom) * colEnd) |->
        <<rowFrom + ((i - 1) \div colEnd), (i - 1) % colEnd>>]

HorizontalLoop == LoopOrder(0, ROWS, COLS - 3)
VerticalLoop == LoopOrder(0, ROWS - 3, COLS)
DownRightLoop == LoopOrder(0, ROWS - 3, COLS - 3)
\* slip: the last row is not visited by the loops of the up-right diagonal
UpRightLoopShort == LoopOrder(3, ROWS - 1, COLS - 3)
UpRightLoop == LoopOrder(3, ROWS, COLS - 3)

\* one pair of loops of findWinningCells: the first line found in the order of the
\* visit, <<>> when the loops end without a return
ScanLoop(b, winner, loop, dr, dc) ==
    LET RECURSIVE From(_)
        From(i) ==
            IF i > Len(loop) THEN <<>>
            ELSE IF AllWinner(b, winner, loop[i][1], loop[i][2], dr, dc)
                 THEN Line(loop[i][1], loop[i][2], dr, dc)
            ELSE From(i + 1)
    IN  From(1)

\* slip: the columns are looked at before the rows
findWinningCellsVerticalFirst(b, winner) ==
    IF winner = null THEN <<>>
    ELSE LET vertical == ScanLoop(b, winner, VerticalLoop, 1, 0)
         IN  IF vertical # <<>> THEN vertical
             ELSE LET horizontal == ScanLoop(b, winner, HorizontalLoop, 0, 1)
             IN  IF horizontal # <<>> THEN horizontal
             ELSE LET downRight == ScanLoop(b, winner, DownRightLoop, 1, 1)
             IN  IF downRight # <<>> THEN downRight
             ELSE ScanLoop(b, winner, UpRightLoop, -1, 1)

findWinningCells(b, winner) ==
    IF winner = null THEN <<>>
    ELSE LET horizontal == ScanLoop(b, winner, HorizontalLoop, 0, 1)
         IN  IF horizontal # <<>> THEN horizontal
             ELSE LET vertical == ScanLoop(b, winner, VerticalLoop, 1, 0)
             IN  IF vertical # <<>> THEN vertical
             ELSE LET downRight == ScanLoop(b, winner, DownRightLoop, 1, 1)
             IN  IF downRight # <<>> THEN downRight
             ELSE ScanLoop(b, winner, UpRightLoop, -1, 1)

----------------------------------------------------------------------------
(* Answers of the backend *)

ApiBoardWith(ones, twos) ==
    [row \in Rows |-> [col \in Cols |->
        IF <<row, col>> \in ones THEN 1
        ELSE IF <<row, col>> \in twos THEN 2
        ELSE 0]]

\* no piece
ApiEmpty == ApiBoardWith({}, {})
\* column 0 is full; 1 has the bottom row 1..4, 2 has column 6 from row 2 down
ApiLines == ApiBoardWith(
    {<<5, 1>>, <<5, 2>>, <<5, 3>>, <<5, 4>>, <<4, 0>>, <<2, 0>>, <<0, 0>>},
    {<<5, 6>>, <<4, 6>>, <<3, 6>>, <<2, 6>>, <<5, 0>>, <<3, 0>>, <<1, 0>>})

ApiBoards == {ApiEmpty, ApiLines}
SessionIds == {"s1", "s2"}
Winners == {NullWinner, 1, 2, 3}

\* the backend gives the human the number 1 in session s1 and 2 in session s2, and
\* names no winner while the game is not over
GameStateResponse ==
    {d \in [session_id : SessionIds, board : ApiBoards, ai_player : Players,
            human_player : Players, current_player : Players,
            game_over : BOOLEAN, winner : Winners] :
        /\ d.ai_player # d.human_player
        /\ d.human_player = (IF d.session_id = "s1" THEN 1 ELSE 2)
        /\ (~d.game_over => d.winner = NullWinner)}

\* findWinningCells on the boards the backend can answer, evaluated once each
UiBoards == {convertBoard(b, h) : b \in ApiBoards, h \in Players}
WinningCellsOf ==
    [b \in UiBoards, winner \in {"player", "ai"} |-> findWinningCells(b, winner)]

InitErrors == {"Failed to initialize game"}
MoveErrors == {"Move failed"}

\* a request in flight is known by its endpoint and the session it names; the
\* column of a move request is recorded in lastOp by the call that sends it, as
\* nothing in the handling of the answer reads the request
InitRequest == [kind |-> "init", session_id |-> null]
MoveRequest(sid, col) == [kind |-> "move", session_id |-> sid]

NoData == [session_id |-> null, board |-> ApiEmpty, ai_player |-> 2,
           human_player |-> 1, current_player |-> 1,
           game_over |-> FALSE, winner |-> NullWinner]

\* what lastOp records: the handler, the column it was called with, the response it
\* handled, and for resetGame the status it was called in
Op(name, col, data) ==
    [op |-> name, col |-> col, data |-> data,
     from |-> IF name = "resetGame" THEN status ELSE "-"]

CanSend == BagCardinality(inflight) < MaxInFlight
Sent(req) == inflight (+) SetToBag({req})
Answered(req) == inflight (-) SetToBag({req})

----------------------------------------------------------------------------
(* The hook *)

\* slip: the message of the last failure is not cleared
initGameKeepsMessage ==
    /\ status' = "connecting"
    /\ isThinking' = TRUE
    /\ board' = createEmptyBoard
    /\ winningCells' = <<>>
    /\ aiFirst' = FALSE
    /\ inflight' = Sent(InitRequest)
    /\ UNCHANGED <<currentTurn, sessionRef, errorMessage>>

\* initGame up to its await fetch
initGame ==
    /\ status' = "connecting"
    /\ isThinking' = TRUE
    /\ errorMessage' = null
    /\ board' = createEmptyBoard
    /\ winningCells' = <<>>
    /\ aiFirst' = FALSE
    /\ inflight' = Sent(InitRequest)
    /\ UNCHANGED <<currentTurn, sessionRef>>

\* useEffect(() => { initGame() }, [initGame])
Mount ==
    /\ ~mounted
    /\ mounted' = TRUE
    /\ lastOp' = Op("mount", 0, NoData)
    /\ initGame
    /\ UNCHANGED <<fwVars, cvVars>>

resetGame ==
    /\ mounted
    /\ CanSend
    /\ lastOp' = Op("resetGame", 0, NoData)
    /\ initGame
    /\ UNCHANGED <<mounted, fwVars, cvVars>>

hasAIMoved(apiBoard) ==
    \E row \in DOMAIN apiBoard : \E col \in DOMAIN apiBoard[row] : apiBoard[row][col] # 0

\* initGame after its await, the response being ok and parsed to data
InitResponseOk(data) ==
    /\ BagIn(InitRequest, inflight)
    /\ inflight' = Answered(InitRequest)
    /\ lastOp' = Op("initOk", 0, data)
    /\ sessionRef' = [session_id |-> data.session_id,
                      human_player |-> data.human_player,
                      ai_player |-> data.ai_player]
    /\ board' = convertBoard(data.board, data.human_player)
    /\ aiFirst' = hasAIMoved(data.board)
    /\ currentTurn' = IF data.current_player = data.human_player THEN "player" ELSE "ai"
    /\ status' = "playing"
    /\ isThinking' = FALSE
    /\ UNCHANGED <<winningCells, errorMessage, mounted, fwVars, cvVars>>

\* initGame after its await, in the catch block
InitResponseFail(msg) ==
    /\ BagIn(InitRequest, inflight)
    /\ inflight' = Answered(InitRequest)
    /\ lastOp' = Op("initFail", 0, NoData)
    /\ status' = "error"
    /\ errorMessage' = msg
    /\ isThinking' = FALSE
    /\ UNCHANGED <<board, currentTurn, winningCells, aiFirst, sessionRef, mounted, fwVars, cvVars>>

\* slip: a move is accepted while an answer is awaited
MoveAcceptedWhileThinking(col) ==
    /\ ~(status # "playing" \/ currentTurn # "player")
    /\ sessionRef.session_id # null
    /\ board[0][col] = null

\* slip: the top cell of the column is not looked at
MoveAcceptedAnyColumn(col) ==
    /\ ~(status # "playing" \/ currentTurn # "player" \/ isThinking)
    /\ sessionRef.session_id # null

\* the conditions under which makeMove goes on to its fetch
MoveAccepted(col) ==
    /\ ~(status # "playing" \/ currentTurn # "player" \/ isThinking)
    /\ sessionRef.session_id # null
    /\ board[0][col] = null

\* slip: the piece is put on the board before the backend answers
makeMoveOptimistic(col) ==
    IF MoveAccepted(col)
    THEN /\ isThinking' = TRUE
         /\ board' = [board EXCEPT ![ROWS - 1][col] = "player"]
         /\ inflight' = Sent(MoveRequest(sessionRef.session_id, col))
         /\ UNCHANGED <<currentTurn, status, winningCells, errorMessage,
                        aiFirst, sessionRef>>
    ELSE UNCHANGED <<hookVars, inflight>>

\* makeMove up to its await fetch
makeMove(col) ==
    IF MoveAccepted(col)
    THEN /\ isThinking' = TRUE
         /\ inflight' = Sent(MoveRequest(sessionRef.session_id, col))
         /\ UNCHANGED <<board, currentTurn, status, winningCells, errorMessage,
                        aiFirst, sessionRef>>
    ELSE UNCHANGED <<hookVars, inflight>>

\* makeMove called through the actions of the hook
MakeMoveCall(col) ==
    /\ mounted
    /\ CanSend
    /\ lastOp' = Op("makeMove", col, NoData)
    /\ makeMove(col)
    /\ UNCHANGED <<mounted, fwVars, cvVars>>

\* the prop disabled that Connect4Game passes to GameBoard
disabled == status # "playing" \/ currentTurn # "player" \/ isThinking

\* click on the button of a column: nothing when the button is disabled
ColumnClick(col) ==
    /\ mounted
    /\ CanSend
    /\ lastOp' = Op("columnClick", col, NoData)
    /\ IF disabled
       THEN UNCHANGED <<hookVars, inflight>>
       ELSE IF ~disabled THEN makeMove(col) ELSE UNCHANGED <<hookVars, inflight>>
    /\ UNCHANGED <<mounted, fwVars, cvVars>>

\* click on the drop button of a column
DropClick(col) ==
    /\ mounted
    /\ CanSend
    /\ lastOp' = Op("dropClick", col, NoData)
    /\ IF disabled \/ board[0][col] # null
       THEN UNCHANGED <<hookVars, inflight>>
       ELSE IF ~disabled THEN makeMove(col) ELSE UNCHANGED <<hookVars, inflight>>
    /\ UNCHANGED <<mounted, fwVars, cvVars>>

\* makeMove after its await, the response being ok and parsed to data
MoveResponseOk(req, data) ==
    /\ req.kind = "move"
    /\ BagIn(req, inflight)
    /\ inflight' = Answered(req)
    /\ lastOp' = Op("moveOk", 0, data)
    /\ LET uiBoard == convertBoard(data.board, data.human_player)
       IN  /\ board' = uiBoard
           /\ IF data.game_over
              THEN /\ IF data.winner = 3
                      THEN status' = "draw" /\ UNCHANGED winningCells
                      ELSE IF data.winner = data.human_player
                      THEN /\ status' = "won"
                           /\ winningCells' = WinningCellsOf[uiBoard, "player"]
                      ELSE /\ status' = "lost"
                           /\ winningCells' = WinningCellsOf[uiBoard, "ai"]
                   /\ UNCHANGED currentTurn
              ELSE /\ currentTurn' = IF data.current_player = data.human_player
                                     THEN "player" ELSE "ai"
                   /\ UNCHANGED <<status, winningCells>>
    /\ isThinking' = FALSE
    /\ UNCHANGED <<errorMessage, aiFirst, sessionRef, mounted, fwVars, cvVars>>

\* makeMove after its await, in the catch block
MoveResponseFail(req, msg) ==
    /\ req.kind = "move"
    /\ BagIn(req, inflight)
    /\ inflight' = Answered(req)
    /\ lastOp' = Op("moveFail", 0, NoData)
    /\ errorMessage' = msg
    /\ isThinking' = FALSE
    /\ UNCHANGED <<board, currentTurn, status, winningCells, aiFirst, sessionRef,
                   mounted, fwVars, cvVars>>

HookInit ==
    /\ board = createEmptyBoard
    /\ currentTurn = "player"
    /\ status = "connecting"
    /\ winningCells = <<>>
    /\ isThinking = FALSE
    /\ errorMessage = null
    /\ aiFirst = FALSE
    /\ sessionRef = [session_id |-> null, human_player |-> 1, ai_player |-> 2]
    /\ inflight = EmptyBag
    /\ mounted = FALSE
    /\ lastOp = [op |-> "none", col |-> 0, data |-> NoData, from |-> "-"]

FindIdle ==
    /\ fwBoard = createEmptyBoard
    /\ fwWinner = null
    /\ fwResult = <<>>
    /\ fwStage = "empty"

ConvertIdle ==
    /\ cvBoard = [row \in Rows |-> [col \in Cols |-> 0]]
    /\ cvHuman = 1
    /\ cvResult = createEmptyBoard
    /\ cvStage = "empty"

Init == HookInit /\ FindIdle /\ ConvertIdle

Next ==
    \/ Mount
    \/ resetGame
    \/ \E col \in ClickCols : MakeMoveCall(col)
    \/ \E col \in ClickCols : ColumnClick(col)
    \/ \E col \in ClickCols : DropClick(col)
    \/ \E data \in GameStateResponse : InitResponseOk(data)
    \/ \E msg \in InitErrors : InitResponseFail(msg)
    \/ \E req \in BagToSet(inflight) : \E data \in GameStateResponse : MoveResponseOk(req, data)
    \/ \E req \in BagToSet(inflight) : \E msg \in MoveErrors : MoveResponseFail(req, msg)

Spec == Init /\ [][Next]_vars

----------------------------------------------------------------------------
(* findWinningCells on boards built from two runs of equal cells *)

Directions == {<<0, 1>>, <<1, 0>>, <<1, 1>>, <<-1, 1>>}
InBoard(row, col) == row \in Rows /\ col \in Cols

\* the cells of the run of len cells from (row, col) in direction d
Run(row, col, d, len) == {<<row + i * d[1], col + i * d[2]>> : i \in 0 .. (len - 1)}

Runs ==
    {Run(row, col, d, len) : row \in Rows, col \in Cols, d \in Directions,
                             len \in 3 .. MaxSegLen}
    \cap SUBSET (Rows \X Cols)

Paint(b, run, cell) ==
    [row \in Rows |-> [col \in Cols |-> IF <<row, col>> \in run THEN cell ELSE b[row][col]]]

PaintFirst(run, cell) ==
    /\ fwStage = "empty"
    /\ fwBoard' = Paint(fwBoard, run, cell)
    /\ fwStage' = "first"
    /\ UNCHANGED <<fwWinner, fwResult, hookVars, inflight, mounted, lastOp, cvVars>>

PaintSecond(run) ==
    /\ fwStage = "first"
    /\ fwBoard' = Paint(fwBoard, run, "player")
    /\ fwStage' = "second"
    /\ UNCHANGED <<fwWinner, fwResult, hookVars, inflight, mounted, lastOp, cvVars>>

Find(winner) ==
    /\ fwStage # "found"
    /\ fwWinner' = winner
    /\ fwResult' = findWinningCells(fwBoard, winner)
    /\ fwStage' = "found"
    /\ UNCHANGED <<fwBoard, hookVars, inflight, mounted, lastOp, cvVars>>

NextFind ==
    \/ \E run \in Runs : \E cell \in {"player", "ai"} : PaintFirst(run, cell)
    \/ \E run \in Runs : PaintSecond(run)
    \/ \E winner \in {null, "player", "ai"} : Find(winner)

SpecFind == Init /\ [][NextFind]_vars

----------------------------------------------------------------------------
(* Properties of makeMove and of the clicks *)

\* this step puts a move request in flight, for the column its call was given
SendsAnyMove ==
    /\ BagCardinality(inflight') > BagCardinality(inflight)
    /\ \E sid \in SessionIds \cup {null} :
           inflight' = Sent(MoveRequest(sid, lastOp'.col))

\* C1: makeMove(col) sends a move request only when status is "playing",
\* currentTurn is "player", isThinking is false and a session id is stored; called
\* in any other state it sends nothing and leaves board, status, currentTurn,
\* winningCells, isThinking, errorMessage and aiFirst unchanged.
C1_MakeMoveGuard ==
    [][LET ready == /\ status = "playing"
                    /\ currentTurn = "player"
                    /\ ~isThinking
                    /\ sessionRef.session_id # null
       IN  /\ SendsAnyMove => ready
           /\ (lastOp'.op = "makeMove" /\ ~ready) =>
                  /\ inflight' = inflight
                  /\ UNCHANGED stateVars]_vars

\* makeMove has been called in a game the player may move in, and its request is
\* the one in flight
C1_Witness ==
    /\ lastOp.op = "makeMove"
    /\ status = "playing"
    /\ currentTurn = "player"
    /\ isThinking
    /\ inflight = SetToBag({MoveRequest(sessionRef.session_id, lastOp.col)})

\* C2: no move request is sent for a column whose top cell board[0][col] is
\* occupied, whether the click is on the button of the column or on its drop
\* button, and such a click leaves the state of the hook unchanged.
C2_FullColumn ==
    [][/\ SendsAnyMove => board[0][lastOp'.col] = null
       /\ (lastOp'.op \in {"columnClick", "dropClick"} /\ board[0][lastOp'.col] # null) =>
              /\ inflight' = inflight
              /\ UNCHANGED hookVars]_vars

\* the button of a full column has been clicked while the board was enabled
C2_Witness ==
    /\ lastOp.op = "columnClick"
    /\ ~disabled
    /\ sessionRef.session_id # null
    /\ board[0][lastOp.col] # null

\* C3: once status is "won", "lost" or "draw", no move request is sent and board,
\* status and winningCells stay as they are until resetGame is called.
C3_TerminalFrozen ==
    [][(status \in Terminal /\ lastOp'.op # "resetGame") =>
           /\ ~SendsAnyMove
           /\ board' = board
           /\ status' = status
           /\ winningCells' = winningCells]_vars

\* the status that lines 226-235 give a finished game
ClaimedOutcome(d) ==
    IF d.winner = 3 THEN "draw"
    ELSE IF d.winner = d.human_player THEN "won"
    ELSE "lost"

ClaimedTurn(d) == IF d.current_player = d.human_player THEN "player" ELSE "ai"

\* C4: handling a successful move response, game_over true gives status "draw"
\* for winner 3, "won" for winner = human_player and "lost" for any other winner,
\* and leaves currentTurn; game_over false leaves the status "playing" and sets
\* currentTurn to "player" exactly when current_player = human_player.
C4_MoveOutcome ==
    [][lastOp'.op = "moveOk" =>
           LET d == lastOp'.data
           IN  IF d.game_over
               THEN status' = ClaimedOutcome(d) /\ currentTurn' = currentTurn
               ELSE status' = "playing" /\ currentTurn' = ClaimedTurn(d)]_vars

\* C5: the status becomes "won", "lost" or "draw" only in the handling of a
\* successful move response with game_over true, and then it is the status the
\* response names whatever the board holds; the board changes only to the
\* conversion of the board of a response, or to the empty board at the start of
\* initGame.
C5_BackendDecides ==
    [][/\ (status' \in Terminal /\ status' # status) =>
              /\ lastOp'.op = "moveOk"
              /\ lastOp'.data.game_over
       /\ (lastOp'.op = "moveOk" /\ lastOp'.data.game_over) =>
              status' = ClaimedOutcome(lastOp'.data)
       /\ board' # board =>
              \/ /\ lastOp'.op \in {"initOk", "moveOk"}
                 /\ board' = convertBoard(lastOp'.data.board, lastOp'.data.human_player)
              \/ /\ lastOp'.op \in {"mount", "resetGame"}
                 /\ board' = createEmptyBoard]_vars

\* the backend has declared the game won on a board without a line of the player
C5_Witness ==
    /\ lastOp.op = "moveOk"
    /\ lastOp.data.game_over
    /\ status = "won"
    /\ board = createEmptyBoard
    /\ winningCells = <<>>

----------------------------------------------------------------------------
(* Properties of findWinningCells *)

\* four cells of winner from (row, col) in direction d, all on the board
FourFrom(b, winner, row, col, d) ==
    \A i \in 0 .. 3 :
        /\ InBoard(row + i * d[1], col + i * d[2])
        /\ b[row + i * d[1]][col + i * d[2]] = winner

HasFour(b, winner) ==
    \E row \in Rows : \E col \in Cols : \E d \in Directions : FourFrom(b, winner, row, col, d)

\* C6: for winner "player" or "ai", findWinningCells returns a non-empty list if
\* and only if the board holds four consecutive cells of winner in a row, a
\* column, a down-right diagonal or an up-right diagonal; for winner null it
\* returns the empty list.
C6_FindsIffFour ==
    fwStage = "found" =>
        IF fwWinner = null THEN fwResult = <<>>
        ELSE (fwResult # <<>>) <=> HasFour(fwBoard, fwWinner)

\* a line was found on a board whose only lines of the winner go up and right
C6_Witness ==
    /\ fwStage = "found"
    /\ fwWinner = "ai"
    /\ fwResult # <<>>
    /\ \A row \in Rows : \A col \in Cols : \A d \in Directions \ {<<-1, 1>>} :
           ~FourFrom(fwBoard, fwWinner, row, col, d)

\* place of a direction in the order horizontal, vertical, down-right, up-right
DirRank(d) ==
    IF d = <<0, 1>> THEN 1 ELSE IF d = <<1, 0>> THEN 2 ELSE IF d = <<1, 1>> THEN 3 ELSE 4

\* line (d1, r1, c1) is found no later than line (d2, r2, c2)
NoLater(d1, r1, c1, d2, r2, c2) ==
    \/ DirRank(d1) < DirRank(d2)
    \/ DirRank(d1) = DirRank(d2) /\ r1 < r2
    \/ DirRank(d1) = DirRank(d2) /\ r1 = r2 /\ c1 <= c2

\* C7: the list returned has length 0 or 4; with length 4 its cells are distinct,
\* on the board, all hold winner and are consecutive along one direction, and it
\* is the first line in the order horizontal, vertical, down-right, up-right,
\* each by rows and then by columns of its first cell.
C7_FirstLine ==
    fwStage = "found" =>
        /\ Len(fwResult) \in {0, 4}
        /\ Len(fwResult) = 4 =>
               LET row == fwResult[1][1]
                   col == fwResult[1][2]
                   d   == <<fwResult[2][1] - row, fwResult[2][2] - col>>
               IN  /\ Cardinality({fwResult[i] : i \in 1 .. 4}) = 4
                   /\ \A i \in 1 .. 4 : InBoard(fwResult[i][1], fwResult[i][2])
                   /\ \A i \in 1 .. 4 : fwBoard[fwResult[i][1]][fwResult[i][2]] = fwWinner
                   /\ d \in Directions
                   /\ \A i \in 1 .. 4 :
                          fwResult[i] = <<row + (i - 1) * d[1], col + (i - 1) * d[2]>>
                   /\ \A r2 \in Rows : \A c2 \in Cols : \A d2 \in Directions :
                          FourFrom(fwBoard, fwWinner, r2, c2, d2) =>
                              NoLater(d, row, col, d2, r2, c2)

\* a line was returned from a board that holds a horizontal and a vertical line
C7_Witness ==
    /\ fwStage = "found"
    /\ Len(fwResult) = 4
    /\ \E row \in Rows : \E col \in Cols : FourFrom(fwBoard, fwWinner, row, col, <<0, 1>>)
    /\ \E row \in Rows : \E col \in Cols : FourFrom(fwBoard, fwWinner, row, col, <<1, 0>>)

----------------------------------------------------------------------------
(* Properties of initGame and resetGame *)

\* C8: when the single initGame request in flight succeeds, the hook has status
\* "playing", isThinking false, errorMessage null, winningCells empty, the
\* converted board of the response, currentTurn "player" exactly when
\* current_player = human_player, and the session of the response.  The request
\* is taken to be single when it is the only request in flight and the status is
\* still "connecting": no other initGame request was in flight since it was sent.
C8_InitSuccess ==
    [][(/\ lastOp'.op = "initOk"
        /\ inflight = SetToBag({InitRequest})
        /\ status = "connecting") =>
           LET d == lastOp'.data
           IN  /\ status' = "playing"
               /\ ~isThinking'
               /\ errorMessage' = null
               /\ winningCells' = <<>>
               /\ board' = convertBoard(d.board, d.human_player)
               /\ currentTurn' = ClaimedTurn(d)
               /\ sessionRef' = [session_id |-> d.session_id,
                                 human_player |-> d.human_player,
                                 ai_player |-> d.ai_player]]_vars

\* C9: when the initGame request fails, status is "error", errorMessage is not
\* null, isThinking is false, the board is the empty board, winningCells is empty
\* and the stored session id is the one stored before.
C9_InitFailure ==
    [][lastOp'.op = "initFail" =>
           /\ status' = "error"
           /\ errorMessage' # null
           /\ ~isThinking'
           /\ board' = createEmptyBoard
           /\ winningCells' = <<>>
           /\ sessionRef'.session_id = sessionRef.session_id]_vars

\* C10: resetGame, in whatever status it is called, sets status "connecting",
\* isThinking true, errorMessage null, winningCells empty, aiFirst false and the
\* board empty and sends one init request; an init request that succeeds, also
\* one sent from status "error", gives status "playing".
C10_Reset ==
    [][/\ lastOp'.op = "resetGame" =>
              /\ status' = "connecting"
              /\ isThinking'
              /\ errorMessage' = null
              /\ winningCells' = <<>>
              /\ ~aiFirst'
              /\ board' = createEmptyBoard
              /\ inflight' = Sent(InitRequest)
       /\ lastOp'.op = "initOk" => status' = "playing"]_vars

\* resetGame has been called in status "error", with the message of the failure
\* cleared and its request in flight
C10_Witness ==
    /\ lastOp.op = "resetGame"
    /\ lastOp.from = "error"
    /\ status = "connecting"
    /\ errorMessage = null
    /\ BagIn(InitRequest, inflight)

----------------------------------------------------------------------------
(* convertBoard on boards whose cells follow a pattern of their row and column *)

CellValues == 0 .. MaxCell

\* the 6x7 board with cell (x * row + y * col + z) % (MaxCell + 1) at (row, col)
PatternBoard(x, y, z) ==
    [row \in Rows |-> [col \in Cols |-> (x * row + y * col + z) % (MaxCell + 1)]]

ChooseBoard(x, y, z) ==
    /\ cvStage = "empty"
    /\ cvBoard' = PatternBoard(x, y, z)
    /\ cvStage' = "chosen"
    /\ UNCHANGED <<cvHuman, cvResult, hookVars, inflight, mounted, lastOp, fwVars>>

Convert(humanPlayer) ==
    /\ cvStage # "converted"
    /\ cvHuman' = humanPlayer
    /\ cvResult' = convertBoard(cvBoard, humanPlayer)
    /\ cvStage' = "converted"
    /\ UNCHANGED <<cvBoard, hookVars, inflight, mounted, lastOp, fwVars>>

NextConvert ==
    \/ \E x \in CellValues : \E y \in CellValues : \E z \in CellValues : ChooseBoard(x, y, z)
    \/ \E humanPlayer \in CellValues : Convert(humanPlayer)

SpecConvert == Init /\ [][NextConvert]_vars

----------------------------------------------------------------------------
(* Properties of the board *)

\* C11: in every reachable state, the responses of the backend carrying 6x7
\* boards with cells in {0, 1, 2}, the board of the hook has exactly 6 rows of 7
\* cells and every cell is null, "player" or "ai".
C11_BoardShape ==
    /\ DOMAIN board = 0 .. 5
    /\ \A row \in DOMAIN board :
           /\ DOMAIN board[row] = 0 .. 6
           /\ \A col \in DOMAIN board[row] : board[row][col] \in {null, "player", "ai"}

\* the board of a move response is shown, with cells of both players and free cells
C11_Witness ==
    /\ lastOp.op = "moveOk"
    /\ \E row \in Rows : \E col \in Cols : board[row][col] = "player"
    /\ \E row \in Rows : \E col \in Cols : board[row][col] = "ai"
    /\ \E row \in Rows : \E col \in Cols : board[row][col] = null

\* C12: convertBoard(apiBoard, humanPlayer) keeps every cell at its row and
\* column and gives null exactly when the API cell is 0, "player" exactly when
\* the API cell is not 0 and equals humanPlayer, and "ai" for every other value.
C12_ConvertCells ==
    cvStage = "converted" =>
        /\ DOMAIN cvResult = DOMAIN cvBoard
        /\ \A row \in DOMAIN cvBoard :
               /\ DOMAIN cvResult[row] = DOMAIN cvBoard[row]
               /\ \A col \in DOMAIN cvBoard[row] :
                      LET cell == cvBoard[row][col]
                          ui   == cvResult[row][col]
                      IN  /\ (ui = null) <=> (cell = 0)
                          /\ (ui = "player") <=> (cell # 0 /\ cell = cvHuman)
                          /\ (ui = "ai") <=> (cell # 0 /\ cell # cvHuman)

\* a board was converted for humanPlayer 0 that holds 0, and a value above 2 which
\* became "ai"
C12_Witness ==
    /\ cvStage = "converted"
    /\ cvHuman = 0
    /\ \E row \in Rows : \E col \in Cols : cvBoard[row][col] = 0 /\ cvResult[row][col] = null
    /\ \E row \in Rows : \E col \in Cols : cvBoard[row][col] > 2 /\ cvResult[row][col] = "ai"

====
